---------------------------- MODULE Spec2Model ----------------------------
(***************************************************************************)
(* A model of zhconv-rs: the ZhConverter (plain conversion, conversion     *)
(* with a shadowing table, MediaWiki rule-block aware conversion) and the  *)
(* ZhConverterBuilder.                                                     *)
(*                                                                         *)
(* A text is a sequence of characters, each character a one-letter string. *)
(* Positions are 0-based offsets as in the source: text[a..b] of the       *)
(* source is Slice(text, a, b).                                            *)
(***************************************************************************)
EXTENDS Integers, Sequences, FiniteSets, TLC

VARIABLES
    \* ZhConverterBuilder
    bstate,                 \* "config" | "panicked" | "built"
    tables,                 \* Vec<(from, to)> tables, each a sequence of pairs
    adds,                   \* HashMap<String, String>
    removes,                \* HashMap<String, String>
    ops,                    \* history: the builder operations invoked so far
    \* ZhConverter
    mapping,                \* automaton + target_words: source word -> target word
    \* one call of convert_to_as_wikitext / convert_to_with
    pc,                     \* position of the call in the code
    text,
    output,
    skip_html_code_blocks,
    apply_global_rules,
    shadowing_pairs,        \* secondary table of this call
    shadowed_source_words,  \* suppressed sources of this call
    pos,
    pieces,                 \* stack of open frames
    covered,                \* history: number of input characters passed on so far
    iterations,             \* history: number of loop iterations run so far
    \* one call of count_matched / is_hans_probability
    matched,                \* the sum count_matched returned
    probability,            \* the f32 is_hans_probability returned
    \* the calls of the threads that share the converter
    calls                   \* thread -> the locals of its call

vars == <<bstate, tables, adds, removes, ops, mapping, pc, text, output,
          skip_html_code_blocks, apply_global_rules, shadowing_pairs,
          shadowed_source_words, pos, pieces, covered, iterations, matched,
          probability,
          calls>>

builderVars == <<bstate, tables, adds, removes, ops>>
callVars == <<pc, text, output, skip_html_code_blocks, apply_global_rules,
              shadowing_pairs, shadowed_source_words, pos, pieces, covered, iterations>>
callVarsButPc == <<text, output, skip_html_code_blocks, apply_global_rules,
                   shadowing_pairs, shadowed_source_words, pos, pieces, covered, iterations>>
scoreVars == <<matched, probability>>

---------------------------------------------------------------------------
(* Bounds of the checked inputs.                                           *)

\* number of segments of the menu an input text of the wikitext call is made of
MaxSegs == 3

\* number of operations invoked on a builder before build()
MaxOps == 3

\* length of the texts given to convert_to_with
MaxShadowLen == 3

\* length of the texts given to convert, count_matched, is_hans_probability
MaxConvertLen == 3

\* number of threads that share one converter
MaxThreads == 2
Threads == 1..MaxThreads

\* const NESTED_RULE_MAX_DEPTH: usize = 10;
NESTED_RULE_MAX_DEPTH == 10

---------------------------------------------------------------------------
(* Strings.                                                                *)

Slice(t, a, b) == SubSeq(t, a + 1, b)

StartsAt(t, i, pat) ==
    /\ i + Len(pat) <= Len(t)
    /\ Slice(t, i, i + Len(pat)) = pat

Min(S) == CHOOSE x \in S : \A y \in S : x <= y

\* the least offset >= from at which pat occurs in t, or -1
FindFrom(t, from, pat) ==
    LET hits == {i \in from..(Len(t) - Len(pat)) : StartsAt(t, i, pat)}
    IN  IF hits = {} THEN -1 ELSE Min(hits)

RECURSIVE Flatten(_)
Flatten(ss) == IF ss = <<>> THEN <<>> ELSE Head(ss) \o Flatten(Tail(ss))

RECURSIVE Rep(_, _)
Rep(s, n) == IF n = 0 THEN <<>> ELSE s \o Rep(s, n - 1)

EmptyMap == [x \in {} |-> <<>>]

MapPut(m, k, v) == [x \in DOMAIN m \cup {k} |-> IF x = k THEN v ELSE m[x]]

---------------------------------------------------------------------------
(* The pattern matcher: CharwiseDoubleArrayAhoCorasick built with          *)
(* MatchKind::LeftmostLongest over the keys of a mapping.                  *)

NoMatch == [s |-> -1, e |-> -1, w |-> <<>>]

MatchesAt(dict, t, i) == {w \in DOMAIN dict : StartsAt(t, i, w)}

\* leftmost_find with the shortest word taken at the earliest start
leftmost_find_shortest(dict, t) ==
    LET starts == {i \in 0..(Len(t) - 1) : MatchesAt(dict, t, i) # {}}
    IN  IF starts = {} THEN NoMatch
        ELSE LET s == Min(starts)
                 w == CHOOSE w \in MatchesAt(dict, t, s) :
                          \A v \in MatchesAt(dict, t, s) : Len(w) <= Len(v)
             IN  [s |-> s, e |-> s + Len(w), w |-> w]

\* leftmost_find_iter(t).next(): the earliest start, and the longest there
leftmost_find(dict, t) ==
    LET starts == {i \in 0..(Len(t) - 1) : MatchesAt(dict, t, i) # {}}
    IN  IF starts = {} THEN NoMatch
        ELSE LET s == Min(starts)
                 w == CHOOSE w \in MatchesAt(dict, t, s) :
                          \A v \in MatchesAt(dict, t, s) : Len(v) <= Len(w)
             IN  [s |-> s, e |-> s + Len(w), w |-> w]

---------------------------------------------------------------------------
(* ZhConverter::convert_to and convert_to_with.                            *)

\* the matches of leftmost_find_iter never overlap: the search resumes at
\* the end of the last match
RECURSIVE convert_to(_, _)
convert_to(dict, t) ==
    LET m == leftmost_find(dict, t)
    IN  IF m = NoMatch THEN t
        ELSE Slice(t, 0, m.s) \o dict[m.w]
                 \o convert_to(dict, Slice(t, m.e, Len(t)))

LexLe(a, b) == a.s < b.s \/ (a.s = b.s /\ a.e <= b.e)

\* the arm of the match in convert_to_with taken on the remaining text t
shadow_arm(base, sec, shadowed, t) ==
    LET a == leftmost_find(base, t)
        b == leftmost_find(sec, t)
    IN  IF a # NoMatch /\ b # NoMatch /\ LexLe(a, b) THEN "shadowing"
        ELSE IF a = NoMatch /\ b # NoMatch THEN "shadowing"
        ELSE IF a # NoMatch
             THEN IF base[a.w] \in shadowed THEN "degraded" ELSE "original"
        ELSE "end"

\* (s, e, target_word) of one iteration of the loop of convert_to_with
shadow_pick(base, sec, shadowed, t) ==
    LET a == leftmost_find(base, t)
        b == leftmost_find(sec, t)
        arm == shadow_arm(base, sec, shadowed, t)
    IN  CASE arm = "shadowing" -> [s |-> b.s, e |-> b.e, tw |-> sec[b.w]]
          [] arm = "degraded"  -> [s |-> 0, e |-> 1, tw |-> Slice(t, 0, 1)]
          [] arm = "original"  -> [s |-> a.s, e |-> a.e, tw |-> base[a.w]]
          [] OTHER             -> [s |-> Len(t), e |-> Len(t), tw |-> <<>>]

RECURSIVE convert_to_with(_, _, _, _)
convert_to_with(base, sec, shadowed, t) ==
    IF t = <<>> THEN <<>>
    ELSE IF shadow_arm(base, sec, shadowed, t) = "end" THEN t
    ELSE LET p == shadow_pick(base, sec, shadowed, t)
         IN  Slice(t, 0, p.s) \o p.tw
                 \o convert_to_with(base, sec, shadowed, Slice(t, p.e, Len(t)))

---------------------------------------------------------------------------
(* ZhConverter::count_matched and is_hans_probability.                     *)

\* the length of a match with its start forgotten
match_len_from_zero(m) == m.e

\* m.end() - m.start()
match_len(m) == m.e - m.s

\* leftmost_find_iter(t).map(|m| m.end() - m.start()).sum()
RECURSIVE count_matched(_, _)
count_matched(dict, t) ==
    LET m == leftmost_find(dict, t)
    IN  IF m = NoMatch THEN 0
        ELSE match_len(m) + count_matched(dict, Slice(t, m.e, Len(t)))

\* the dictionaries of the two converters is_hans_probability consults,
\* reduced to one word each: "a" is written in Simplified Chinese only,
\* "b" in Traditional Chinese only, any other character in both
ZH_TO_HANT_CONVERTER == (<<"a">> :> <<"b">>)
ZH_TO_HANS_CONVERTER == (<<"b">> :> <<"a">>)

\* x / y of two f32 that hold non-negative integers: 0.0 / 0.0 is NaN,
\* x / 0.0 is +inf (den = 0)
f32_div(x, y) ==
    IF x = 0 /\ y = 0 THEN [nan |-> TRUE, num |-> 0, den |-> 1]
    ELSE [nan |-> FALSE, num |-> x, den |-> y]

is_hans_probability(t) ==
    LET non_hant_score == count_matched(ZH_TO_HANT_CONVERTER, t)
        non_hans_score == count_matched(ZH_TO_HANS_CONVERTER, t)
    IN  f32_div(non_hant_score, non_hans_score + non_hant_score)

---------------------------------------------------------------------------
(* The regular expressions of convert_to_as_wikitext.  The regex crate     *)
(* finds the leftmost match; the alternatives begin with different         *)
(* literals, so at most one of them matches at a given start; .*? is lazy  *)
(* and . matches any character but a line feed.                            *)

OpenTag == <<"-", "{">>
CloseTag == <<"}", "-">>

NoLineFeed(t, a, b) == \A i \in (a + 1)..b : t[i] # "\n"

\* <open.*?>.*?close at offset i: the end of the match, or -1
TagSpanEnd(t, i, open, close) ==
    IF ~StartsAt(t, i, open) THEN -1
    ELSE LET j == FindFrom(t, i + Len(open), <<">">>)
         IN  IF j = -1 THEN -1
             ELSE LET k == FindFrom(t, j + 1, close)
                  IN  IF k = -1 \/ ~NoLineFeed(t, i, k) THEN -1
                      ELSE k + Len(close)

\* <code>.*?</code> at offset i: the end of the match, or -1
CodeSpanEnd(t, i) ==
    LET open == <<"<", "c", "o", "d", "e", ">">>
        close == <<"<", "/", "c", "o", "d", "e", ">">>
    IN  IF ~StartsAt(t, i, open) THEN -1
        ELSE LET k == FindFrom(t, i + Len(open), close)
             IN  IF k = -1 \/ ~NoLineFeed(t, i, k) THEN -1
                 ELSE k + Len(close)

\* <script.*?>.*?</script>|<style.*?>.*?</style>|<code>.*?</code>|<pre.*?>.*?</pre>
HtmlSpanEnd(t, i) ==
    LET script == TagSpanEnd(t, i, <<"<", "s", "c", "r", "i", "p", "t">>,
                             <<"<", "/", "s", "c", "r", "i", "p", "t", ">">>)
        style == TagSpanEnd(t, i, <<"<", "s", "t", "y", "l", "e">>,
                            <<"<", "/", "s", "t", "y", "l", "e", ">">>)
        code == CodeSpanEnd(t, i)
        pre == TagSpanEnd(t, i, <<"<", "p", "r", "e">>,
                          <<"<", "/", "p", "r", "e", ">">>)
    IN  IF script # -1 THEN script
        ELSE IF style # -1 THEN style
        ELSE IF code # -1 THEN code
        ELSE pre

NoFind == [s |-> -1, e |-> -1]

\* sor_or_html.find_at(t, from)
sor_or_html(t, from) ==
    LET hits == {i \in from..(Len(t) - 1) :
                     StartsAt(t, i, OpenTag) \/ HtmlSpanEnd(t, i) # -1}
    IN  IF hits = {} THEN NoFind
        ELSE LET i == Min(hits)
             IN  IF StartsAt(t, i, OpenTag) THEN [s |-> i, e |-> i + 2]
                 ELSE [s |-> i, e |-> HtmlSpanEnd(t, i)]

\* sor.find_at(t, from)
sor(t, from) ==
    LET i == FindFrom(t, from, OpenTag)
    IN  IF i = -1 THEN NoFind ELSE [s |-> i, e |-> i + 2]

pat_outer(t, from, skip) == IF skip THEN sor_or_html(t, from) ELSE sor(t, from)

\* regex!(r#"-\{|\}-"#).find_at(t, from)
pat_inner(t, from) ==
    LET hits == {i \in from..(Len(t) - 2) :
                     StartsAt(t, i, OpenTag) \/ StartsAt(t, i, CloseTag)}
    IN  IF hits = {} THEN NoFind ELSE [s |-> Min(hits), e |-> Min(hits) + 2]

---------------------------------------------------------------------------
(* The rule resolver (rule.rs, pagerules.rs), of which the converter uses  *)
(* ConvRule::from_str_infallible, ConvRule::targeted and                   *)
(* PageRules::from_str / as_conv_actions.  A block whose interior reads    *)
(* H|from:to declares the global addition from -> to, one that reads       *)
(* -|from:to the global removal of from; both render as nothing.  Any      *)
(* other interior renders as written.  The pairs are those of the          *)
(* converter's variant.                                                    *)

IsGlobalRule(piece) ==
    /\ Len(piece) >= 3
    /\ piece[1] \in {"H", "-"}
    /\ piece[2] = "|"
    /\ FindFrom(piece, 2, <<":">>) # -1

\* ConvRule::from_str_infallible(piece).targeted(variant)
targeted(piece) == IF IsGlobalRule(piece) THEN <<>> ELSE piece

\* the conv action a global rule declares
ConvActionOf(piece) ==
    LET c == FindFrom(piece, 2, <<":">>)
    IN  [adds |-> piece[1] = "H",
         from |-> Slice(piece, 2, c),
         to |-> Slice(piece, c + 1, Len(piece))]

\* PageRules::from_str(t).as_conv_actions(): the global rules of the
\* terminated blocks of the page, in the order of the page
RECURSIVE page_rules_from(_, _)
page_rules_from(t, from) ==
    LET i == FindFrom(t, from, OpenTag)
    IN  IF i = -1 THEN <<>>
        ELSE LET k == FindFrom(t, i + 2, CloseTag)
             IN  IF k = -1 THEN <<>>
                 ELSE LET piece == Slice(t, i + 2, k)
                      IN  (IF IsGlobalRule(piece) THEN <<ConvActionOf(piece)>>
                           ELSE <<>>) \o page_rules_from(t, i + 2)

as_conv_actions(t) == page_rules_from(t, 0)

---------------------------------------------------------------------------
(* ZhConverter::convert_to_as_wikitext, one action per branch of its       *)
(* loops.                                                                  *)

\* shadowing_pairs.extend(..) over the additions, empty sources filtered
RECURSIVE shadowing_pairs_of(_)
shadowing_pairs_of(cas) ==
    IF cas = <<>> THEN EmptyMap
    ELSE LET ca == cas[Len(cas)]
             m == shadowing_pairs_of(SubSeq(cas, 1, Len(cas) - 1))
         IN  IF ca.adds /\ ca.from # <<>> THEN MapPut(m, ca.from, ca.to) ELSE m

\* shadowed_source_words.extend(..) over the removals
shadowed_source_words_of(cas) ==
    {cas[i].from : i \in {j \in 1..Len(cas) : ~cas[j].adds}}

\* the boxed closure convert_to: convert_to_with once a secondary automaton
\* was built, the plain convert_to otherwise
boxed_convert_to(base, sec, shadowed, t) ==
    IF DOMAIN sec # {} THEN convert_to_with(base, sec, shadowed, t)
    ELSE convert_to(base, t)

\* trailing_text with the conversion forgotten
trailing_text_unconverted(base, t, p) ==
    IF p < Len(t) THEN Slice(t, p, Len(t)) ELSE <<>>

\* trailing_text with the overlay of the call applied
trailing_text_overlaid(base, t, p) ==
    IF p < Len(t)
    THEN boxed_convert_to(base, shadowing_pairs, shadowed_source_words,
                          Slice(t, p, Len(t)))
    ELSE <<>>

\* what is appended after the scan loop: if pos < text.len() { convert }
trailing_text(base, t, p) ==
    IF p < Len(t) THEN convert_to(base, Slice(t, p, Len(t))) ELSE <<>>

\* a closed piece passed through the dictionary after it is resolved
rendered_converted(piece) == convert_to(mapping, targeted(piece))

\* a closed piece folded as written, its markers put back
rendered_raw(piece) == OpenTag \o piece \o CloseTag

\* lines 322-328: what the end tag writes for the piece it closes:
\* ConvRule::from_str_infallible(&piece).targeted(self.variant)
rendered(piece) == targeted(piece)

\* depth_cap_pos with the advance forgotten
depth_cap_pos_stuck(p, m2) == p

\* pos after a start tag met at the depth cap
depth_cap_pos(p, m2) == p + 2

ConvertHere(t) ==
    boxed_convert_to(mapping, shadowing_pairs, shadowed_source_words, t)

\* lines 233-276: the pass over the page for its global rules
PrePass ==
    /\ pc = "prepass"
    /\ LET cas == IF apply_global_rules THEN as_conv_actions(text) ELSE <<>>
       IN  /\ shadowing_pairs' = shadowing_pairs_of(cas)
           /\ shadowed_source_words' = shadowed_source_words_of(cas)
    /\ pc' = "outer"
    /\ UNCHANGED <<builderVars, scoreVars, calls, mapping, text, output, skip_html_code_blocks,
                   apply_global_rules, pos, pieces, covered, iterations>>

\* OuterHtml with the span passed through the conversion
OuterHtmlConverted ==
    /\ pc = "outer"
    /\ LET m1 == pat_outer(text, pos, skip_html_code_blocks)
       IN  /\ m1 # NoFind
           /\ Slice(text, m1.s, m1.e) # OpenTag
           /\ output' = output \o ConvertHere(Slice(text, pos, m1.e))
           /\ pos' = m1.e
           /\ covered' = covered + (m1.e - pos)
           /\ iterations' = iterations + 1
    /\ UNCHANGED <<builderVars, scoreVars, calls, mapping, pc, text,
                   skip_html_code_blocks, apply_global_rules, shadowing_pairs,
                   shadowed_source_words, pieces>>

\* lines 296-304: the outer pattern found a span to exclude
OuterHtml ==
    /\ pc = "outer"
    /\ LET m1 == pat_outer(text, pos, skip_html_code_blocks)
       IN  /\ m1 # NoFind
           /\ Slice(text, m1.s, m1.e) # OpenTag
           /\ output' = output \o ConvertHere(Slice(text, pos, m1.s))
                               \o Slice(text, m1.s, m1.e)
           /\ pos' = m1.e
           /\ covered' = covered + (m1.e - pos)
           /\ iterations' = iterations + 1
    /\ UNCHANGED <<builderVars, scoreVars, calls, mapping, pc, text, skip_html_code_blocks,
                   apply_global_rules, shadowing_pairs, shadowed_source_words,
                   pieces>>

\* lines 296-307: the outer pattern found a toplevel -{
OuterRuleStart ==
    /\ pc = "outer"
    /\ LET m1 == pat_outer(text, pos, skip_html_code_blocks)
       IN  /\ m1 # NoFind
           /\ Slice(text, m1.s, m1.e) = OpenTag
           /\ output' = output \o ConvertHere(Slice(text, pos, m1.s))
           /\ pos' = m1.s + 2
           /\ covered' = covered + (m1.s + 2 - pos)
           /\ iterations' = iterations + 1
    /\ pieces' = Append(pieces, <<>>)
    /\ pc' = "inner"
    /\ UNCHANGED <<builderVars, scoreVars, calls, mapping, text, skip_html_code_blocks,
                   apply_global_rules, shadowing_pairs, shadowed_source_words>>

\* line 296: the outer pattern finds nothing more
OuterExit ==
    /\ pc = "outer"
    /\ pat_outer(text, pos, skip_html_code_blocks) = NoFind
    /\ pc' = "tail"
    /\ UNCHANGED <<builderVars, scoreVars, calls, mapping, text, output, skip_html_code_blocks,
                   apply_global_rules, shadowing_pairs, shadowed_source_words,
                   pos, pieces, covered, iterations>>

\* lines 310-315: a start tag while NESTED_RULE_MAX_DEPTH frames are open
InnerDepthCap ==
    /\ pc = "inner"
    /\ LET m2 == pat_inner(text, pos)
       IN  /\ m2 # NoFind
           /\ Slice(text, m2.s, m2.e) = OpenTag
           /\ Len(pieces) >= NESTED_RULE_MAX_DEPTH
           /\ pos' = depth_cap_pos(pos, m2)
    /\ iterations' = iterations + 1
    /\ UNCHANGED <<builderVars, scoreVars, calls, mapping, pc, text, output,
                   skip_html_code_blocks, apply_global_rules, shadowing_pairs,
                   shadowed_source_words, pieces, covered>>

\* lines 316-319: a start tag opens a nested frame
InnerStartTag ==
    /\ pc = "inner"
    /\ LET m2 == pat_inner(text, pos)
       IN  /\ m2 # NoFind
           /\ Slice(text, m2.s, m2.e) = OpenTag
           /\ Len(pieces) < NESTED_RULE_MAX_DEPTH
           /\ pieces' = Append([pieces EXCEPT ![Len(pieces)] =
                                    @ \o Slice(text, pos, m2.s)], <<>>)
           /\ pos' = m2.e
           /\ covered' = covered + (m2.e - pos)
           /\ iterations' = iterations + 1
    /\ UNCHANGED <<builderVars, scoreVars, calls, mapping, pc, text, output,
                   skip_html_code_blocks, apply_global_rules, shadowing_pairs,
                   shadowed_source_words>>

\* lines 320-343: an end tag closes the innermost frame
InnerEndTag ==
    /\ pc = "inner"
    /\ LET m2 == pat_inner(text, pos)
       IN  /\ m2 # NoFind
           /\ Slice(text, m2.s, m2.e) = CloseTag
           /\ LET piece == pieces[Len(pieces)] \o Slice(text, pos, m2.s)
                  upper == SubSeq(pieces, 1, Len(pieces) - 1)
              IN  IF upper # <<>>
                  THEN /\ pieces' = [upper EXCEPT ![Len(upper)] =
                                         @ \o rendered(piece)]
                       /\ output' = output
                       /\ pc' = "inner"
                  ELSE /\ pieces' = upper
                       /\ output' = output \o rendered(piece)
                       /\ pc' = "unwind"
           /\ pos' = m2.e
           /\ covered' = covered + (m2.e - pos)
           /\ iterations' = iterations + 1
    /\ UNCHANGED <<builderVars, scoreVars, calls, mapping, text, skip_html_code_blocks,
                   apply_global_rules, shadowing_pairs, shadowed_source_words>>

\* line 308: the inner pattern finds nothing more
InnerExit ==
    /\ pc = "inner"
    /\ pat_inner(text, pos) = NoFind
    /\ pc' = "unwind"
    /\ UNCHANGED <<builderVars, scoreVars, calls, mapping, text, output, skip_html_code_blocks,
                   apply_global_rules, shadowing_pairs, shadowed_source_words,
                   pos, pieces, covered, iterations>>

\* lines 345-348: the unwind loop emits one open frame
UnwindPop ==
    /\ pc = "unwind"
    /\ pieces # <<>>
    /\ output' = output \o OpenTag \o pieces[Len(pieces)]
    /\ pieces' = SubSeq(pieces, 1, Len(pieces) - 1)
    /\ UNCHANGED <<builderVars, scoreVars, calls, mapping, pc, text, skip_html_code_blocks,
                   apply_global_rules, shadowing_pairs, shadowed_source_words,
                   pos, covered, iterations>>

\* UnwindDone taken while frames are left
UnwindDoneEarly ==
    /\ pc = "unwind"
    /\ pc' = "outer"
    /\ UNCHANGED <<builderVars, scoreVars, calls, mapping, text, output,
                   skip_html_code_blocks, apply_global_rules, shadowing_pairs,
                   shadowed_source_words, pos, pieces, covered, iterations>>

\* line 345: no frame is left, the outer loop resumes
UnwindDone ==
    /\ pc = "unwind"
    /\ pieces = <<>>
    /\ pc' = "outer"
    /\ UNCHANGED <<builderVars, scoreVars, calls, mapping, text, output, skip_html_code_blocks,
                   apply_global_rules, shadowing_pairs, shadowed_source_words,
                   pos, pieces, covered, iterations>>

\* lines 351-354: the text after the last marker
TrailingText ==
    /\ pc = "tail"
    /\ output' = output \o trailing_text(mapping, text, pos)
    /\ covered' = covered + (Len(text) - pos)
    /\ iterations' = iterations
    /\ pc' = "done"
    /\ UNCHANGED <<builderVars, scoreVars, calls, mapping, text, skip_html_code_blocks,
                   apply_global_rules, shadowing_pairs, shadowed_source_words,
                   pos, pieces>>

---------------------------------------------------------------------------
(* convert_to_as_wikitext as a function of its arguments: what one call    *)
(* that runs alone appends to its output.                                  *)

\* lines 345-348: what the unwind loop emits for the open frames ps
RECURSIVE unwind(_)
unwind(ps) ==
    IF ps = <<>> THEN <<>>
    ELSE OpenTag \o ps[Len(ps)] \o unwind(SubSeq(ps, 1, Len(ps) - 1))

\* lines 308-348: the inner loop from offset p with the open frames ps,
\* and the unwind: the offset reached and what was put to the output
RECURSIVE inner_loop(_, _, _)
inner_loop(t, p, ps) ==
    LET m2 == pat_inner(t, p)
    IN  IF m2 = NoFind THEN [pos |-> p, out |-> unwind(ps)]
        ELSE IF Slice(t, m2.s, m2.e) = OpenTag
        THEN IF Len(ps) >= NESTED_RULE_MAX_DEPTH
             THEN inner_loop(t, depth_cap_pos(p, m2), ps)
             ELSE inner_loop(t, m2.e,
                             Append([ps EXCEPT ![Len(ps)] =
                                         @ \o Slice(t, p, m2.s)], <<>>))
        ELSE LET piece == ps[Len(ps)] \o Slice(t, p, m2.s)
                 upper == SubSeq(ps, 1, Len(ps) - 1)
             IN  IF upper # <<>>
                 THEN inner_loop(t, m2.e, [upper EXCEPT ![Len(upper)] =
                                               @ \o rendered(piece)])
                 ELSE [pos |-> m2.e, out |-> rendered(piece)]

\* lines 294-354: the outer loop from offset p, and the trailing text
RECURSIVE outer_loop(_, _, _, _, _, _)
outer_loop(base, sec, shadowed, t, skip, p) ==
    LET m1 == pat_outer(t, p, skip)
    IN  IF m1 = NoFind THEN trailing_text(base, t, p)
        ELSE boxed_convert_to(base, sec, shadowed, Slice(t, p, m1.s))
             \o (IF Slice(t, m1.s, m1.e) # OpenTag
                 THEN Slice(t, m1.s, m1.e)
                          \o outer_loop(base, sec, shadowed, t, skip, m1.e)
                 ELSE LET r == inner_loop(t, m1.s + 2, << <<>> >>)
                      IN  r.out \o outer_loop(base, sec, shadowed, t, skip,
                                              r.pos))

\* lines 222-355
convert_to_as_wikitext(base, t, skip, global) ==
    LET cas == IF global THEN as_conv_actions(t) ELSE <<>>
    IN  outer_loop(base, shadowing_pairs_of(cas),
                   shadowed_source_words_of(cas), t, skip, 0)

---------------------------------------------------------------------------
(* ZhConverterBuilder.  A builder value is [tables, adds, removes,        *)
(* panicked]; a pair is <<from, to>>.  The pairs of a Conv are what        *)
(* Conv::get_conv_pairs(target) returns.                                   *)

NewBuilder ==
    [tables |-> <<>>, adds |-> EmptyMap, removes |-> EmptyMap,
     panicked |-> FALSE]

\* HashMap::extend(pairs)
RECURSIVE Extend(_, _)
Extend(m, pairs) ==
    IF pairs = <<>> THEN m
    ELSE Extend(MapPut(m, pairs[1][1], pairs[1][2]), Tail(pairs))

HasEmptyFrom(pairs) == \E i \in 1..Len(pairs) : pairs[i][1] = <<>>

table(b, t) == [b EXCEPT !.tables = Append(@, t)]

add_conv(b, pairs) == [b EXCEPT !.adds = Extend(@, pairs)]

remove_conv(b, pairs) == [b EXCEPT !.removes = Extend(@, pairs)]

add_conv_pair(b, from, to) ==
    IF from = <<>> THEN [b EXCEPT !.panicked = TRUE]
    ELSE [b EXCEPT !.adds = MapPut(@, from, to)]

remove_conv_pair(b, from, to) == [b EXCEPT !.removes = MapPut(@, from, to)]

conv_lines(b, pairs) ==
    IF HasEmptyFrom(pairs) THEN [b EXCEPT !.panicked = TRUE]
    ELSE [b EXCEPT !.adds = Extend(@, pairs)]

\* page_rules / conv_actions with one conv action
conv_actions(b, ca) ==
    IF ca.adds THEN [b EXCEPT !.adds = Extend(@, ca.pairs)]
    ELSE [b EXCEPT !.removes = Extend(@, ca.pairs)]

\* the pairs of the tables that pass the two filters of build()
RECURSIVE kept_table_pairs(_, _)
kept_table_pairs(pairs, rm) ==
    IF pairs = <<>> THEN <<>>
    ELSE LET p == Head(pairs)
         IN  (IF ~(p[1] = <<>> /\ p[2] = <<>>) /\ p[1] \notin DOMAIN rm
              THEN <<p>> ELSE <<>>) \o kept_table_pairs(Tail(pairs), rm)

\* add_kept with the filter of the adds forgotten
add_kept_unfiltered(from, rm) == TRUE

\* whether an add of source from passes the filter of build()
add_kept(from, rm) == from \notin DOMAIN rm

\* build_mapping with the two extends swapped: a table entry overwrites an add
build_mapping_tables_last(b) ==
    LET fromTables == Extend(EmptyMap,
                             kept_table_pairs(Flatten(b.tables), b.removes))
        keptAdds == {f \in DOMAIN b.adds : add_kept(f, b.removes)}
    IN  [f \in DOMAIN fromTables \cup keptAdds |->
            IF f \in DOMAIN fromTables THEN fromTables[f] ELSE b.adds[f]]

\* the mapping build() collects: the tables, then the adds, both filtered
build_mapping(b) ==
    LET fromTables == Extend(EmptyMap,
                             kept_table_pairs(Flatten(b.tables), b.removes))
        keptAdds == {f \in DOMAIN b.adds : add_kept(f, b.removes)}
    IN  [f \in DOMAIN fromTables \cup keptAdds |->
            IF f \in keptAdds THEN b.adds[f] ELSE fromTables[f]]

\* CharwiseDoubleArrayAhoCorasickBuilder::build(..).unwrap(): daachorse
\* returns an error for an empty pattern and for no pattern at all
automaton_builds(m) == DOMAIN m # {} /\ <<>> \notin DOMAIN m

Cur == [tables |-> tables, adds |-> adds, removes |-> removes,
        panicked |-> bstate = "panicked"]

\* one operation of the history applied to a builder value
ApplyOp(b, o) ==
    CASE o.op = "table"            -> table(b, o.arg)
      [] o.op = "add_conv_pair"    -> add_conv_pair(b, o.arg[1], o.arg[2])
      [] o.op = "remove_conv_pair" -> remove_conv_pair(b, o.arg[1], o.arg[2])
      [] o.op = "add_conv"         -> add_conv(b, o.arg)
      [] o.op = "remove_conv"      -> remove_conv(b, o.arg)
      [] o.op = "conv_lines"       -> conv_lines(b, o.arg)
      [] o.op = "conv_actions"     -> conv_actions(b, o.arg)

RECURSIVE Replay(_)
Replay(os) ==
    IF os = <<>> THEN NewBuilder
    ELSE LET b == Replay(SubSeq(os, 1, Len(os) - 1))
         IN  IF b.panicked THEN b ELSE ApplyOp(b, os[Len(os)])

\* the words and the pairs the builder is fed
WordA == <<"a">>
WordB == <<"b">>
WordX == <<"X">>
WordY == <<"Y">>
WordZ == <<"Z">>
PairInputs == {<<f, t>> : f \in {<<>>, WordA}, t \in {WordX, WordY}}
TableInputs == {<< <<WordA, WordX>> >>, << <<WordA, WordY>>, <<WordB, WordX>> >>}
ConvInputs == {<< <<<<>>, WordX>> >>, << <<WordB, WordY>> >>}
ConvActionInputs == {[adds |-> TRUE, pairs |-> << <<<<>>, WordX>> >>],
                     [adds |-> FALSE, pairs |-> << <<WordB, WordY>> >>]}

Invoke(o) ==
    /\ bstate = "config"
    /\ Len(ops) < MaxOps
    /\ LET b == ApplyOp(Cur, o)
       IN  /\ tables' = b.tables
           /\ adds' = b.adds
           /\ removes' = b.removes
           /\ bstate' = IF b.panicked THEN "panicked" ELSE "config"
    /\ ops' = Append(ops, o)
    /\ UNCHANGED <<mapping, callVars, scoreVars, calls>>

\* lines 437-440
Table ==
    /\ bstate = "config"
    /\ \E t \in TableInputs : Invoke([op |-> "table", arg |-> t])

\* lines 505-512
AddConvPair ==
    /\ bstate = "config"
    /\ \E p \in PairInputs : Invoke([op |-> "add_conv_pair", arg |-> p])

\* lines 517-521
RemoveConvPair ==
    /\ bstate = "config"
    /\ \E p \in PairInputs : Invoke([op |-> "remove_conv_pair", arg |-> p])

\* lines 487-492
AddConv ==
    /\ bstate = "config"
    /\ \E c \in ConvInputs : Invoke([op |-> "add_conv", arg |-> c])

\* lines 495-500
RemoveConv ==
    /\ bstate = "config"
    /\ \E c \in ConvInputs : Invoke([op |-> "remove_conv", arg |-> c])

\* lines 531-544
ConvLines ==
    /\ bstate = "config"
    /\ \E c \in ConvInputs : Invoke([op |-> "conv_lines", arg |-> c])

\* lines 462-481
PageRulesOp ==
    /\ bstate = "config"
    /\ \E ca \in ConvActionInputs : Invoke([op |-> "conv_actions", arg |-> ca])

\* lines 561-597: build()
Build ==
    /\ bstate = "config"
    /\ LET m == build_mapping(Cur)
       IN  IF automaton_builds(m)
           THEN bstate' = "built" /\ mapping' = m
           ELSE bstate' = "panicked" /\ mapping' = mapping
    /\ UNCHANGED <<tables, adds, removes, ops, callVars, scoreVars, calls>>

---------------------------------------------------------------------------
(* convert_to_with, one action per arm of its loop.  The call works on     *)
(* text (the slice still to convert) and output.                           *)

WithStep(arm) ==
    /\ pc = "with"
    /\ text # <<>>
    /\ shadow_arm(mapping, shadowing_pairs, shadowed_source_words, text) = arm
    /\ LET p == shadow_pick(mapping, shadowing_pairs, shadowed_source_words,
                            text)
       IN  /\ output' = output \o Slice(text, 0, p.s) \o p.tw
           /\ text' = Slice(text, p.e, Len(text))
    /\ iterations' = iterations + 1
    /\ UNCHANGED <<builderVars, scoreVars, calls, mapping, pc, skip_html_code_blocks,
                   apply_global_rules, shadowing_pairs, shadowed_source_words,
                   pos, pieces, covered>>

\* lines 119-128: the word of the shadowing automaton is picked
WithShadowing ==
    /\ pc = "with"
    /\ WithStep("shadowing")

\* lines 132-137: the base match is disabled, one char is skipped
WithDegraded ==
    /\ pc = "with"
    /\ WithStep("degraded")

\* lines 139-143: the word of the original automaton is picked
WithOriginal ==
    /\ pc = "with"
    /\ WithStep("original")

\* lines 146-150: neither automaton matches: the rest is pushed, break
WithEnd ==
    /\ pc = "with"
    /\ text # <<>>
    /\ shadow_arm(mapping, shadowing_pairs, shadowed_source_words, text) = "end"
    /\ output' = output \o text
    /\ pc' = "done"
    /\ UNCHANGED <<builderVars, scoreVars, calls, mapping, text, skip_html_code_blocks,
                   apply_global_rules, shadowing_pairs, shadowed_source_words,
                   pos, pieces, covered, iterations>>

\* line 113: the text is used up
WithEmpty ==
    /\ pc = "with"
    /\ text = <<>>
    /\ pc' = "done"
    /\ UNCHANGED <<builderVars, scoreVars, calls, mapping, text, output, skip_html_code_blocks,
                   apply_global_rules, shadowing_pairs, shadowed_source_words,
                   pos, pieces, covered, iterations>>

---------------------------------------------------------------------------
(* convert_to, one action per iteration of its loop (pos is the variable   *)
(* last of the source), count_matched and is_hans_probability.             *)

\* leftmost_find_iter(text): the next match at or after offset from
next_match(dict, t, from) ==
    LET m == leftmost_find(dict, Slice(t, from, Len(t)))
    IN  IF m = NoMatch THEN NoMatch
        ELSE [s |-> from + m.s, e |-> from + m.e, w |-> m.w]

\* lines 79-82: convert_to is entered, last = 0
ConvertCall ==
    /\ pc = "call"
    /\ pc' = "convert"
    /\ pos' = 0
    /\ UNCHANGED <<builderVars, scoreVars, calls, mapping, text, output,
                   skip_html_code_blocks, apply_global_rules, shadowing_pairs,
                   shadowed_source_words, pieces, covered, iterations>>

\* lines 84-95: one match of the iterator
ConvertMatch ==
    /\ pc = "convert"
    /\ LET m == next_match(mapping, text, pos)
       IN  /\ m # NoMatch
           /\ output' = output \o (IF m.s > pos THEN Slice(text, pos, m.s)
                                    ELSE <<>>) \o mapping[m.w]
           /\ pos' = m.e
    /\ UNCHANGED <<builderVars, scoreVars, calls, mapping, pc, text,
                   skip_html_code_blocks, apply_global_rules, shadowing_pairs,
                   shadowed_source_words, pieces, covered, iterations>>

\* line 96: the iterator is used up, the rest is pushed
ConvertRest ==
    /\ pc = "convert"
    /\ next_match(mapping, text, pos) = NoMatch
    /\ output' = output \o Slice(text, pos, Len(text))
    /\ pc' = "converted"
    /\ UNCHANGED <<builderVars, scoreVars, calls, mapping, text,
                   skip_html_code_blocks, apply_global_rules, shadowing_pairs,
                   shadowed_source_words, pos, pieces, covered, iterations>>

\* lines 384-389: count_matched(text)
CountMatched ==
    /\ pc = "call"
    /\ matched' = count_matched(mapping, text)
    /\ pc' = "counted"
    /\ UNCHANGED <<builderVars, callVarsButPc, calls, mapping, probability>>

\* lib.rs lines 109-122: is_hans_probability(text)
IsHansProbability ==
    /\ pc = "call"
    /\ probability' = is_hans_probability(text)
    /\ pc' = "scored"
    /\ UNCHANGED <<builderVars, callVarsButPc, calls, mapping, matched>>

---------------------------------------------------------------------------
(* The specifications.                                                     *)

\* an f32: a ratio of two integers, or NaN
NotANumber == [nan |-> TRUE, num |-> 0, den |-> 1]

\* no call of count_matched or is_hans_probability has returned
NoScore ==
    /\ matched = 0
    /\ probability = NotANumber

\* the locals of a thread that is in no call
IdleCall ==
    [pc |-> "idle", op |-> "none", text |-> <<>>,
     skip_html_code_blocks |-> FALSE, apply_global_rules |-> FALSE,
     shadowing_pairs |-> EmptyMap, shadowed_source_words |-> {},
     output |-> <<>>, matched |-> 0]

NoThreadCall == calls = [t \in Threads |-> IdleCall]

NoCall ==
    /\ pc = "idle"
    /\ text = <<>>
    /\ output = <<>>
    /\ skip_html_code_blocks = FALSE
    /\ apply_global_rules = FALSE
    /\ shadowing_pairs = EmptyMap
    /\ shadowed_source_words = {}
    /\ pos = 0
    /\ pieces = <<>>
    /\ covered = 0
    /\ iterations = 0
    /\ NoScore
    /\ NoThreadCall

\* a converter made by ZhConverter::from_pairs(pairs)
BuiltFromPairs(pairs) ==
    /\ ops = [i \in 1..Len(pairs) |-> [op |-> "add_conv_pair", arg |-> pairs[i]]]
    /\ tables = Replay(ops).tables
    /\ adds = Replay(ops).adds
    /\ removes = Replay(ops).removes
    /\ bstate = "built"
    /\ mapping = build_mapping(Replay(ops))

\* the builder: any operations, then build()
InitBuilder ==
    /\ bstate = "config"
    /\ tables = NewBuilder.tables
    /\ adds = NewBuilder.adds
    /\ removes = NewBuilder.removes
    /\ ops = <<>>
    /\ mapping = EmptyMap
    /\ NoCall

NextBuilder ==
    \/ Table
    \/ AddConvPair
    \/ RemoveConvPair
    \/ AddConv
    \/ RemoveConv
    \/ ConvLines
    \/ PageRulesOp
    \/ Build

SpecBuilder == InitBuilder /\ [][NextBuilder]_vars

\* the segments the input texts of convert_to_as_wikitext are made of
GlobalAdd == <<"-", "{", "H", "|", "a", ":", "Z", "}", "-">>
GlobalRemove == <<"-", "{", "-", "|", "a", ":", "X", "}", "-">>
CodeOpen == <<"<", "c", "o", "d", "e", ">">>
CodeClose == <<"<", "/", "c", "o", "d", "e", ">">>
\* a line of text: a word of the dictionary and a line feed
Line == <<"a", "\n">>
Menu == {WordA, WordB, Line, OpenTag, CloseTag, GlobalAdd, GlobalRemove,
         CodeOpen, CodeClose}
\* the segments that follow NESTED_RULE_MAX_DEPTH start tags
DeepMenu == {WordA, OpenTag, CloseTag}
SegSeqs(menu) == UNION {[1..n -> menu] : n \in 0..MaxSegs}
\* the words around and inside one block
Words == {<<>>, WordA, WordB}
WikiTexts ==
    {Flatten(segs) : segs \in SegSeqs(Menu)}
        \cup {pre \o OpenTag \o w \o CloseTag \o post :
                 pre \in Words, w \in Words, post \in Words}
        \cup {Rep(OpenTag, NESTED_RULE_MAX_DEPTH) \o Flatten(segs) :
                 segs \in SegSeqs(DeepMenu)}

\* one call of convert_to_as_wikitext on a converter of a -> X
Init ==
    /\ BuiltFromPairs(<< <<WordA, WordX>> >>)
    /\ text \in WikiTexts
    /\ skip_html_code_blocks \in BOOLEAN
    /\ apply_global_rules \in BOOLEAN
    /\ pc = "prepass"
    /\ output = <<>>
    /\ shadowing_pairs = EmptyMap
    /\ shadowed_source_words = {}
    /\ pos = 0
    /\ pieces = <<>>
    /\ covered = 0
    /\ iterations = 0
    /\ NoScore
    /\ NoThreadCall

Next ==
    \/ PrePass
    \/ OuterHtml
    \/ OuterRuleStart
    \/ OuterExit
    \/ InnerDepthCap
    \/ InnerStartTag
    \/ InnerEndTag
    \/ InnerExit
    \/ UnwindPop
    \/ UnwindDone
    \/ TrailingText

Spec == Init /\ [][Next]_vars

\* one call of convert_to_with
ShadowBases == {<< <<WordA, WordX>> >>,
                << <<WordA, WordX>>, <<WordA \o WordB, WordY>> >>,
                << <<WordB, WordY>> >>}
ShadowSecs == {(WordB :> WordZ), (WordA :> WordZ), (WordA \o WordB :> WordZ)}
ShadowedSets == {{}, {WordX}, {WordA}}
ShadowTexts == UNION {[1..n -> {"a", "b"}] : n \in 0..MaxShadowLen}

InitShadow ==
    /\ \E base \in ShadowBases : BuiltFromPairs(base)
    /\ shadowing_pairs \in ShadowSecs
    /\ shadowed_source_words \in ShadowedSets
    /\ text \in ShadowTexts
    /\ pc = "with"
    /\ output = <<>>
    /\ skip_html_code_blocks = FALSE
    /\ apply_global_rules = TRUE
    /\ pos = 0
    /\ pieces = <<>>
    /\ covered = 0
    /\ iterations = 0
    /\ NoScore
    /\ NoThreadCall

NextShadow ==
    \/ WithShadowing
    \/ WithDegraded
    \/ WithOriginal
    \/ WithEnd
    \/ WithEmpty

SpecShadow == InitShadow /\ [][NextShadow]_vars

\* one call of convert, count_matched or is_hans_probability
ConvertDicts == {<< <<WordA, WordX>> >>,
                 << <<WordA, WordX>>, <<WordA \o WordB, WordY>> >>,
                 << <<WordA \o WordA, WordZ>> >>,
                 << <<WordB, WordY>>, <<WordA \o WordB \o WordA, WordX>> >>}
ConvertTexts == UNION {[1..n -> {"a", "b", "c"}] : n \in 0..MaxConvertLen}

InitConvert ==
    /\ \E pairs \in ConvertDicts : BuiltFromPairs(pairs)
    /\ text \in ConvertTexts
    /\ pc = "call"
    /\ output = <<>>
    /\ skip_html_code_blocks = FALSE
    /\ apply_global_rules = FALSE
    /\ shadowing_pairs = EmptyMap
    /\ shadowed_source_words = {}
    /\ pos = 0
    /\ pieces = <<>>
    /\ covered = 0
    /\ iterations = 0
    /\ NoScore
    /\ NoThreadCall

NextConvert ==
    \/ ConvertCall
    \/ ConvertMatch
    \/ ConvertRest
    \/ CountMatched
    \/ IsHansProbability

SpecConvert == InitConvert /\ [][NextConvert]_vars

---------------------------------------------------------------------------
(* Threads that call one shared ZhConverter through &self.  The converter  *)
(* is the variable mapping; everything else a call touches is a local of   *)
(* that call, kept in calls[t].                                            *)

\* the overlay of the call of another thread
call_overlay_of_other(t) ==
    LET u == CHOOSE u \in Threads : u # t
    IN  [shadowing_pairs |-> calls[u].shadowing_pairs,
         shadowed_source_words |-> calls[u].shadowed_source_words]

\* lines 257-275: the overlay the closure convert_to of the call of thread
\* t has captured
call_overlay(t) ==
    [shadowing_pairs |-> calls[t].shadowing_pairs,
     shadowed_source_words |-> calls[t].shadowed_source_words]

\* the texts the threads pass
GlobalAddY == <<"-", "{", "H", "|", "a", ":", "Y", "}", "-">>
SharedTexts == {WordA, WordA \o GlobalAdd, WordA \o GlobalAddY}

\* a thread enters convert, count_matched or convert_to_as_wikitext with
\* fresh locals
ThreadCall ==
    \E t \in Threads, txt \in SharedTexts, skip \in BOOLEAN,
       global \in BOOLEAN, op \in {"convert", "count_matched", "wikitext"} :
        /\ calls[t].pc = "idle"
        /\ op # "wikitext" => (~skip /\ ~global)
        /\ calls' = [calls EXCEPT ![t] =
                         [IdleCall EXCEPT !.pc = "called", !.op = op,
                                          !.text = txt,
                                          !.skip_html_code_blocks = skip,
                                          !.apply_global_rules = global]]
        /\ UNCHANGED <<builderVars, callVars, scoreVars, mapping>>

\* lines 72-77: convert(text)
ThreadConvert ==
    \E t \in Threads :
        /\ calls[t].pc = "called"
        /\ calls[t].op = "convert"
        /\ calls' = [calls EXCEPT ![t].output = convert_to(mapping, calls[t].text),
                                  ![t].pc = "returned"]
        /\ UNCHANGED <<builderVars, callVars, scoreVars, mapping>>

\* lines 384-389: count_matched(text)
ThreadCountMatched ==
    \E t \in Threads :
        /\ calls[t].pc = "called"
        /\ calls[t].op = "count_matched"
        /\ calls' = [calls EXCEPT ![t].matched =
                                      count_matched(mapping, calls[t].text),
                                  ![t].pc = "returned"]
        /\ UNCHANGED <<builderVars, callVars, scoreVars, mapping>>

\* lines 233-276: the call builds its overlay
ThreadPrePass ==
    \E t \in Threads :
        /\ calls[t].pc = "called"
        /\ calls[t].op = "wikitext"
        /\ LET cas == IF calls[t].apply_global_rules
                      THEN as_conv_actions(calls[t].text) ELSE <<>>
           IN  calls' = [calls EXCEPT
                            ![t].shadowing_pairs = shadowing_pairs_of(cas),
                            ![t].shadowed_source_words =
                                shadowed_source_words_of(cas),
                            ![t].pc = "scan"]
        /\ UNCHANGED <<builderVars, callVars, scoreVars, mapping>>

\* lines 278-354: the scan, with the overlay the closure captured
ThreadScan ==
    \E t \in Threads :
        /\ calls[t].pc = "scan"
        /\ calls' = [calls EXCEPT
                         ![t].output =
                             outer_loop(mapping,
                                        call_overlay(t).shadowing_pairs,
                                        call_overlay(t).shadowed_source_words,
                                        calls[t].text,
                                        calls[t].skip_html_code_blocks, 0),
                         ![t].pc = "returned"]
        /\ UNCHANGED <<builderVars, callVars, scoreVars, mapping>>

\* the call returns: its locals, the overlay with them, are dropped
ThreadReturn ==
    \E t \in Threads :
        /\ calls[t].pc = "returned"
        /\ calls' = [calls EXCEPT ![t] = IdleCall]
        /\ UNCHANGED <<builderVars, callVars, scoreVars, mapping>>

\* threads sharing a converter of a -> X
InitShared ==
    /\ BuiltFromPairs(<< <<WordA, WordX>> >>)
    /\ NoCall
    /\ NoThreadCall

NextShared ==
    \/ ThreadCall
    \/ ThreadConvert
    \/ ThreadCountMatched
    \/ ThreadPrePass
    \/ ThreadScan
    \/ ThreadReturn

SpecShared == InitShared /\ [][NextShared]_vars

\* a call of convert_to_as_wikitext or of convert_to_with, run to its end
InitScan == Init \/ InitShadow

NextScan == Next \/ NextShadow

SpecScan == InitScan /\ [][NextScan]_vars

---------------------------------------------------------------------------
(* The claims about convert_to_as_wikitext, checked under Spec.            *)

HasOpenTag(t) == FindFrom(t, 0, OpenTag) # -1

HasCloseTag(t) == FindFrom(t, 0, CloseTag) # -1

OpenTagOffsets(t) == {i \in 0..(Len(t) - 2) : StartsAt(t, i, OpenTag)}

HasHtmlSpan(t) == \E i \in 0..(Len(t) - 1) : HtmlSpanEnd(t, i) # -1

\* the text outside blocks that a step from the current state converts
NonBlockText ==
    IF pc = "tail" THEN Slice(text, pos, Len(text))
    ELSE LET m1 == pat_outer(text, pos, skip_html_code_blocks)
         IN  IF pc = "outer" /\ m1 # NoFind THEN Slice(text, pos, m1.s)
             ELSE <<>>

\* what the step appended to the output for it; the dictionaries of the
\* checked inputs keep the length of a text
NonBlockEmitted ==
    SubSeq(output', Len(output) + 1, Len(output) + Len(NonBlockText))

\* C1 as stated: for every text without -{ and for every setting of the
\* two toggles, convert_to_as_wikitext gives the output of convert(text).
C1_NoStartTagIsConvert ==
    (pc = "done" /\ ~HasOpenTag(text)) => output = convert_to(mapping, text)

\* C1 as amended: for every text without -{ that, when HTML code blocks are
\* skipped, holds no complete <script>, <style>, <code> or <pre> span, and
\* for every setting of the two toggles, convert_to_as_wikitext gives the
\* output of convert(text).
C1_NoMarkerIsConvert ==
    (/\ pc = "done"
     /\ ~HasOpenTag(text)
     /\ skip_html_code_blocks => ~HasHtmlSpan(text))
        => output = convert_to(mapping, text)

\* a finished call, both toggles set, on a text without -{ that holds a word
\* of the dictionary and an unclosed <code>
C1_Witness ==
    /\ pc = "done"
    /\ ~HasOpenTag(text)
    /\ skip_html_code_blocks
    /\ apply_global_rules
    /\ ~HasHtmlSpan(text)
    /\ FindFrom(text, 0, CodeOpen) # -1
    /\ FindFrom(text, 0, WordA) # -1
    /\ output # text

\* C2: when the call is done every input character was passed on exactly
\* once: converted, copied, put into a frame or consumed as a delimiter; the
\* scan skipped none.
C2_EveryUnitAccounted == pc = "done" => covered = Len(text)

\* C3: with global rules applied, every occurrence of the source of an
\* addition of the page in text outside blocks is replaced by its target,
\* in the text after the last block too.
C3_AdditionsApplyToAllNonBlockText ==
    [][apply_global_rules /\ pc \in {"outer", "tail"}
           => \A f \in DOMAIN shadowing_pairs :
                  \A i \in 0..(Len(NonBlockText) - 1) :
                      StartsAt(NonBlockText, i, f)
                          => StartsAt(NonBlockEmitted, i, shadowing_pairs[f])]_vars

\* C4: with global rules applied and no addition on the page, every
\* occurrence in text outside blocks of a source the page removes, and the
\* dictionary holds, is left as written.
C4_RemovalSuppressesWithoutAdditions ==
    [][apply_global_rules /\ pc \in {"outer", "tail"}
         /\ DOMAIN shadowing_pairs = {}
           => \A f \in shadowed_source_words \cap DOMAIN mapping :
                  \A i \in 0..(Len(NonBlockText) - 1) :
                      StartsAt(NonBlockText, i, f)
                          => StartsAt(NonBlockEmitted, i, f)]_vars

\* C6: for a text P -{ S with no -{ or }- in P or S (and no HTML span to
\* skip), the output is convert(P), then -{, then S as written.
C6_UnterminatedBlockVerbatim ==
    LET i == FindFrom(text, 0, OpenTag)
    IN  (/\ pc = "done"
         /\ Cardinality(OpenTagOffsets(text)) = 1
         /\ ~HasCloseTag(text)
         /\ ~HasHtmlSpan(text))
            => output = convert_to(mapping, Slice(text, 0, i)) \o OpenTag
                            \o Slice(text, i + 2, Len(text))

\* C7: when the input ends with two or more frames open (no }- at all, the
\* depth cap not reached, no HTML span to skip), the unwind emits the
\* frames in the order of the input: after convert(P) the output reads as
\* the input does from the first -{ to the last.
C7_UnwindKeepsInputOrder ==
    LET opens == OpenTagOffsets(text)
        first == Min(opens)
        last == CHOOSE i \in opens : \A j \in opens : j <= i
        head == convert_to(mapping, Slice(text, 0, first))
    IN  (/\ pc = "done"
         /\ Cardinality(opens) >= 2
         /\ Cardinality(opens) <= NESTED_RULE_MAX_DEPTH
         /\ ~HasCloseTag(text)
         /\ ~HasHtmlSpan(text))
            => SubSeq(output, 1, Len(head) + (last + 2 - first))
                   = head \o Slice(text, first, last + 2)

\* C8: a -{ met while NESTED_RULE_MAX_DEPTH frames are open pushes no frame
\* and is added, with the text since the last marker, to the innermost
\* frame.
C8_DepthCapAccumulatesLiteral ==
    [][LET m2 == pat_inner(text, pos)
       IN  (/\ pc = "inner"
            /\ m2 # NoFind
            /\ Slice(text, m2.s, m2.e) = OpenTag
            /\ Len(pieces) >= NESTED_RULE_MAX_DEPTH)
               => /\ Len(pieces') = Len(pieces)
                  /\ pieces'[Len(pieces)]
                         = pieces[Len(pieces)] \o Slice(text, pos, m2.e)]_vars

---------------------------------------------------------------------------
(* The claim about convert_to_with, checked under SpecShadow.              *)

\* the step applied match m with target word tw
Applied(m, tw) ==
    /\ output' = output \o Slice(text, 0, m.s) \o tw
    /\ text' = Slice(text, m.e, Len(text))

\* C5: at a step where both automata match, the match of the shadowing
\* automaton is applied when its (start, end) is at most that of the base
\* match, and a base match (not disabled) that starts strictly earlier is
\* applied.
C5_SecondaryWinsWhenNotLater ==
    [][LET a == leftmost_find(mapping, text)
           b == leftmost_find(shadowing_pairs, text)
       IN  (pc = "with" /\ a # NoMatch /\ b # NoMatch)
               => /\ LexLe(b, a) => Applied(b, shadowing_pairs[b.w])
                  /\ (a.s < b.s /\ mapping[a.w] \notin shadowed_source_words)
                         => Applied(a, mapping[a.w])]_vars

---------------------------------------------------------------------------
(* The claims about the builder, checked under SpecBuilder.                *)

OpPairs(o) ==
    CASE o.op \in {"add_conv_pair", "remove_conv_pair"} -> <<o.arg>>
      [] o.op = "conv_actions" -> o.arg.pairs
      [] OTHER -> o.arg

Layer(o) ==
    CASE o.op = "table" -> "table"
      [] o.op \in {"remove_conv_pair", "remove_conv"} -> "remove"
      [] o.op = "conv_actions" -> IF o.arg.adds THEN "add" ELSE "remove"
      [] OTHER -> "add"

Froms(o) == {OpPairs(o)[i][1] : i \in 1..Len(OpPairs(o))}

RemovedSources(os) ==
    UNION {Froms(os[i]) : i \in {j \in 1..Len(os) : Layer(os[j]) = "remove"}}

\* the converter a sequence of operations followed by build() gives
Outcome(os) ==
    LET b == Replay(os)
    IN  IF b.panicked \/ ~automaton_builds(build_mapping(b)) THEN "panic"
        ELSE build_mapping(b)

Permuted(os, f) == [i \in 1..Len(os) |-> os[f[i]]]

\* two operations of one layer that give one source different targets
Conflict(o1, o2) ==
    /\ Layer(o1) = Layer(o2)
    /\ Layer(o1) # "remove"
    /\ \E i \in 1..Len(OpPairs(o1)), j \in 1..Len(OpPairs(o2)) :
           /\ OpPairs(o1)[i][1] = OpPairs(o2)[j][1]
           /\ OpPairs(o1)[i][2] # OpPairs(o2)[j][2]

KeepsConflictOrder(os, f) ==
    \A i, j \in 1..Len(os) :
        (i < j /\ Conflict(os[f[i]], os[f[j]])) => f[i] < f[j]

\* C9: no sequence of operations with an add or a remove of an empty source
\* gives a converter.
C9_EmptySourceNeverBuilds ==
    bstate = "built"
        => \A i \in 1..Len(ops) :
               Layer(ops[i]) = "table" \/ <<>> \notin Froms(ops[i])

NoRemovedSource ==
    \A f \in RemovedSources(ops) :
        /\ f \notin DOMAIN mapping
        /\ convert_to(mapping, f) = f

\* C10 as stated: the converter built holds no entry of a removed source
\* and converts such a source to itself, and every permutation of the
\* operations builds the same mapping.
C10_AnyOrderSameMapping ==
    bstate = "built"
        => /\ NoRemovedSource
           /\ \A f \in Permutations(1..Len(ops)) :
                  Outcome(Permuted(ops, f)) = mapping

\* C10 as amended: the converter built holds no entry of a removed source
\* and converts such a source to itself, and every permutation of the
\* operations that keeps the relative order of two tables, or of two adds,
\* that give one source different targets builds the same mapping.
C10_RemovalIsPostFilter ==
    bstate = "built"
        => /\ NoRemovedSource
           /\ \A f \in Permutations(1..Len(ops)) :
                  KeepsConflictOrder(ops, f)
                      => Outcome(Permuted(ops, f)) = mapping

\* a converter built after a remove of a was followed by an add of a with
\* another target, a table giving a as well
C10_Witness ==
    /\ bstate = "built"
    /\ \E i, j, k \in 1..Len(ops) :
           /\ i < j
           /\ ops[i] = [op |-> "remove_conv_pair", arg |-> <<WordA, WordY>>]
           /\ ops[j] = [op |-> "add_conv_pair", arg |-> <<WordA, WordX>>]
           /\ ops[k].op = "table"
           /\ WordA \in Froms(ops[k])

\* the target the last add of source f in os gives
LastAddTarget(os, f) ==
    LET hits == {<<i, j>> \in (1..Len(os)) \X (1..MaxOps) :
                     /\ Layer(os[i]) = "add"
                     /\ j <= Len(OpPairs(os[i]))
                     /\ OpPairs(os[i])[j][1] = f}
        last == CHOOSE h \in hits :
                    \A g \in hits : g[1] < h[1] \/ (g[1] = h[1] /\ g[2] <= h[2])
    IN  OpPairs(os[last[1]])[last[2]][2]

SourcesOf(os, layer) ==
    UNION {Froms(os[i]) : i \in {j \in 1..Len(os) : Layer(os[j]) = layer}}

\* C11: a source given by a table and by an add, and not removed, is mapped
\* by the converter built to the target of the add, whether the add came
\* before or after the table.
C11_AddOverridesTable ==
    bstate = "built"
        => \A f \in (SourcesOf(ops, "table") \cap SourcesOf(ops, "add"))
                        \ RemovedSources(ops) :
               /\ f \in DOMAIN mapping
               /\ mapping[f] = LastAddTarget(ops, f)
               /\ convert_to(mapping, f) = LastAddTarget(ops, f)

\* a converter built after add(a, Y) was followed by a table of a -> X
C11_Witness ==
    /\ bstate = "built"
    /\ \E i, j \in 1..Len(ops) :
           /\ i < j
           /\ ops[i] = [op |-> "add_conv_pair", arg |-> <<WordA, WordY>>]
           /\ ops[j] = [op |-> "table", arg |-> << <<WordA, WordX>> >>]
    /\ WordA \notin RemovedSources(ops)
    /\ mapping[WordA] = WordY

---------------------------------------------------------------------------
(* The claims about convert, count_matched and is_hans_probability,        *)
(* checked under SpecConvert.                                              *)

\* the reference result, position by position: where no source occurs the
\* character is copied, where sources occur the target of the longest is
\* emitted and the scan goes on after it
RECURSIVE reference_convert(_, _, _)
reference_convert(dict, t, p) ==
    IF p >= Len(t) THEN <<>>
    ELSE IF MatchesAt(dict, t, p) = {}
         THEN <<t[p + 1]>> \o reference_convert(dict, t, p + 1)
    ELSE LET w == CHOOSE w \in MatchesAt(dict, t, p) :
                      \A v \in MatchesAt(dict, t, p) : Len(v) <= Len(w)
         IN  dict[w] \o reference_convert(dict, t, p + Len(w))

\* C12: for every dictionary of unique non-empty sources and every text,
\* convert(text) is the reference left-to-right result (earliest start,
\* longest source there, resume after the match, gaps copied): a -> X,
\* ab -> Y gives Y for ab, and aa -> Z gives Za for aaa.
C12_ConvertIsLeftmostLongest ==
    pc = "converted"
        => /\ output = reference_convert(mapping, text, 0)
           /\ output = convert_to(mapping, text)
           /\ (mapping = (WordA :> WordX) @@ (WordA \o WordB :> WordY)
                   /\ text = <<"a", "b">>) => output = <<"Y">>
           /\ (mapping = (WordA \o WordA :> WordZ)
                   /\ text = <<"a", "a", "a">>) => output = <<"Z", "a">>

\* convert has returned Yc for abc under a -> X, ab -> Y
C12_Witness ==
    /\ pc = "converted"
    /\ mapping = (WordA :> WordX) @@ (WordA \o WordB :> WordY)
    /\ text = <<"a", "b", "c">>
    /\ output = <<"Y", "c">>

\* no occurrence of a source of dict in t spans offset k
NoSpanning(dict, t, k) ==
    \A w \in DOMAIN dict : \A i \in 0..(Len(t) - 1) :
        StartsAt(t, i, w) => ~(i < k /\ k < i + Len(w))

\* the sum of the lengths of the matches of the reference scan
RECURSIVE reference_count(_, _, _)
reference_count(dict, t, p) ==
    IF p >= Len(t) THEN 0
    ELSE IF MatchesAt(dict, t, p) = {} THEN reference_count(dict, t, p + 1)
    ELSE LET w == CHOOSE w \in MatchesAt(dict, t, p) :
                      \A v \in MatchesAt(dict, t, p) : Len(v) <= Len(w)
         IN  Len(w) + reference_count(dict, t, p + Len(w))

\* C13: count_matched is the sum of end - start over the leftmost-longest
\* matches, and for every split of the text into a and b that no occurrence
\* of a source spans, count_matched(a + b) = count_matched(a) +
\* count_matched(b).
C13_CountMatchedAdditive ==
    pc = "counted"
        => /\ matched = reference_count(mapping, text, 0)
           /\ \A k \in 0..Len(text) :
                  NoSpanning(mapping, text, k)
                      => matched = count_matched(mapping, Slice(text, 0, k))
                                 + count_matched(mapping,
                                                 Slice(text, k, Len(text)))

\* count_matched has returned for a text with a split no source spans and
\* matches on both sides of it, and a split a source spans
C13_Witness ==
    /\ pc = "counted"
    /\ \E k \in 1..(Len(text) - 1) :
           /\ NoSpanning(mapping, text, k)
           /\ count_matched(mapping, Slice(text, 0, k)) > 0
           /\ count_matched(mapping, Slice(text, k, Len(text))) > 0
    /\ \E k \in 1..(Len(text) - 1) : ~NoSpanning(mapping, text, k)

\* C15: for every text, the empty text and the texts neither converter
\* matches included, is_hans_probability returns a number of [0, 1], the
\* quotient non_hant_score / (non_hans_score + non_hant_score).
C15_ProbabilityInUnitRange ==
    pc = "scored"
        => /\ ~probability.nan
           /\ probability.den > 0
           /\ 0 <= probability.num
           /\ probability.num <= probability.den
           /\ probability.num = count_matched(ZH_TO_HANT_CONVERTER, text)
           /\ probability.den = count_matched(ZH_TO_HANS_CONVERTER, text)
                                  + count_matched(ZH_TO_HANT_CONVERTER, text)

---------------------------------------------------------------------------
(* More claims about convert_to_as_wikitext, checked under Spec.           *)

\* the markers of t from offset p on, read as pat_inner reads them: whether
\* every -{ has its }- and no }- comes without a -{ (ok), and the deepest
\* nesting (max); d is the number of blocks open at p
RECURSIVE nesting(_, _, _, _)
nesting(t, p, d, mx) ==
    LET m == pat_inner(t, p)
    IN  IF m = NoFind THEN [ok |-> d = 0, max |-> mx]
        ELSE IF Slice(t, m.s, m.e) = OpenTag
        THEN nesting(t, m.e, d + 1, IF d + 1 > mx THEN d + 1 ELSE mx)
        ELSE IF d = 0 THEN [ok |-> FALSE, max |-> mx]
        ELSE nesting(t, m.e, d - 1, mx)

\* the offset after the }- that closes the block whose interior starts at p
RECURSIVE block_end(_, _, _)
block_end(t, p, d) ==
    LET m == pat_inner(t, p)
    IN  IF m = NoFind THEN Len(t)
        ELSE IF Slice(t, m.s, m.e) = OpenTag THEN block_end(t, m.e, d + 1)
        ELSE IF d = 1 THEN m.e
        ELSE block_end(t, m.e, d - 1)

\* the reference rendering of a block, innermost blocks first: the first
\* }- closes the last -{ before it, that block gives way to the resolver's
\* rendering of its interior, and so on until no block is left
RECURSIVE bottom_up(_)
bottom_up(b) ==
    LET k == FindFrom(b, 0, CloseTag)
    IN  IF k = -1 THEN b
        ELSE LET opens == {i \in 0..(k - 2) : StartsAt(b, i, OpenTag)}
                 i == CHOOSE i \in opens : \A j \in opens : j <= i
             IN  bottom_up(Slice(b, 0, i) \o targeted(Slice(b, i + 2, k))
                               \o Slice(b, k + 2, Len(b)))

\* the reference output for a text of terminated blocks: the text outside
\* blocks converted as the call converts it, every toplevel block rendered
\* bottom-up
RECURSIVE reference_wikitext(_, _)
reference_wikitext(t, p) ==
    LET i == FindFrom(t, p, OpenTag)
    IN  IF i = -1 THEN convert_to(mapping, Slice(t, p, Len(t)))
        ELSE LET j == block_end(t, i + 2, 1)
             IN  ConvertHere(Slice(t, p, i)) \o bottom_up(Slice(t, i, j))
                     \o reference_wikitext(t, j)

\* C16: nested terminated blocks are resolved bottom-up.  An end tag met
\* with an enclosing frame open has the resolver render the inner piece
\* and appends the rendering to the enclosing frame, which is rendered
\* later, and for a text of terminated blocks nested within the depth cap
\* the output is that of the innermost-first reference.
C16_NestedBlocksResolveBottomUp ==
    [][/\ LET m2 == pat_inner(text, pos)
              n == Len(pieces)
          IN  (/\ pc = "inner"
               /\ m2 # NoFind
               /\ Slice(text, m2.s, m2.e) = CloseTag
               /\ n >= 2)
                  => /\ output' = output
                     /\ pieces' = [SubSeq(pieces, 1, n - 1) EXCEPT ![n - 1] =
                                       pieces[n - 1]
                                           \o targeted(pieces[n]
                                                  \o Slice(text, pos, m2.s))]
                     /\ pc' = "inner"
       /\ (/\ pc' = "done"
           /\ nesting(text, 0, 0, 0).ok
           /\ nesting(text, 0, 0, 0).max <= NESTED_RULE_MAX_DEPTH
           /\ skip_html_code_blocks => ~HasHtmlSpan(text))
              => output' = reference_wikitext(text, 0)]_vars

\* a finished call on -{-{H|a:Z}-}-, a block that holds a block whose
\* rendering is not its interior
C16_Witness ==
    /\ pc = "done"
    /\ text = OpenTag \o GlobalAdd \o CloseTag
    /\ output = <<>>

\* C17: the stack never holds more than NESTED_RULE_MAX_DEPTH frames, and
\* it is empty whenever the outer scan looks for the next toplevel marker,
\* when the trailing text is converted and when the call has returned.
C17_StackBoundedAndEmptyAtTopLevel ==
    /\ Len(pieces) <= NESTED_RULE_MAX_DEPTH
    /\ pc \in {"prepass", "outer", "tail", "done"} => pieces = <<>>
    /\ pc = "inner" => pieces # <<>>

\* the outer scan has resumed after NESTED_RULE_MAX_DEPTH open frames, a
\* further -{ met at the cap, were unwound
C17_Witness ==
    /\ pc = "outer"
    /\ pieces = <<>>
    /\ Cardinality({i \in OpenTagOffsets(text) : i < pos})
           > NESTED_RULE_MAX_DEPTH
    /\ Len(output) >= 2 * NESTED_RULE_MAX_DEPTH

\* a complete <code> span at offset i whatever it holds, line feeds
\* included: its end, or -1
AnyCodeSpanEnd(t, i) ==
    IF ~StartsAt(t, i, CodeOpen) THEN -1
    ELSE LET k == FindFrom(t, i + Len(CodeOpen), CodeClose)
         IN  IF k = -1 THEN -1 ELSE k + Len(CodeClose)

\* the step taken where the outer scan stands before a protected region
\* (SpanEnd tells the regions) that starts before the next -{: the text
\* before the region is converted, the region is copied as written, the
\* scan resumes after its closing tag, and no frame is opened
RegionIsCopied(SpanEnd(_, _)) ==
    LET starts == {i \in pos..(Len(text) - 1) : SpanEnd(text, i) # -1}
        i == Min(starts)
        open == FindFrom(text, pos, OpenTag)
    IN  (/\ pc = "outer"
         /\ skip_html_code_blocks
         /\ starts # {}
         /\ open = -1 \/ i < open)
            => /\ output' = output \o ConvertHere(Slice(text, pos, i))
                                  \o Slice(text, i, SpanEnd(text, i))
               /\ pos' = SpanEnd(text, i)
               /\ pieces' = <<>>
               /\ pc' = "outer"

---------------------------------------------------------------------------
(* The claim about termination, checked under SpecScan.                    *)

\* the loops in the order one offset can pass through them
PhaseRank ==
    CASE pc = "prepass" -> 5
      [] pc = "inner"   -> 4
      [] pc = "unwind"  -> 3
      [] pc = "outer"   -> 2
      [] pc \in {"tail", "with"} -> 1
      [] OTHER -> 0

\* what is left to do: the text not yet scanned, the loop, the open frames
Rank == <<Len(text) - pos, PhaseRank, Len(pieces)>>

LexLess(a, b) ==
    \/ a[1] < b[1]
    \/ a[1] = b[1] /\ a[2] < b[2]
    \/ a[1] = b[1] /\ a[2] = b[2] /\ a[3] < b[3]

\* C20: the scan of convert_to_as_wikitext and convert_to_with terminate.
\* Every iteration of the outer loop, of the inner loop (the depth-cap
\* branch too) and of the shadow loop (the degraded one-character step too)
\* moves the scan forward, the offset stays within the text, and every
\* step of the call, an iteration or not, lowers a rank made of three
\* natural numbers, so that no call takes infinitely many steps.
C20_ScanTerminates ==
    [][/\ 0 <= pos' /\ pos' <= Len(text')
       /\ iterations' # iterations
              => (pos' > pos \/ Len(text') < Len(text))
       /\ (pc = "outer"
              /\ pat_outer(text, pos, skip_html_code_blocks) # NoFind)
              => pos' > pos
       /\ (pc = "inner" /\ pat_inner(text, pos) # NoFind) => pos' > pos
       /\ (pc = "with"
              /\ (\/ leftmost_find(mapping, text) # NoMatch
                  \/ leftmost_find(shadowing_pairs, text) # NoMatch))
              => Len(text') < Len(text)
       /\ LexLess(Rank', Rank)
       /\ \A i \in 1..3 : Rank'[i] >= 0]_vars

\* a call has returned after the depth-cap branch was taken
C20_Witness ==
    /\ pc = "done"
    /\ Cardinality(OpenTagOffsets(text)) > NESTED_RULE_MAX_DEPTH
    /\ pos <= Len(text)
    /\ covered < Len(text)

\* a finished call of Spec has the output convert_to_as_wikitext gives
WikitextStepsAgree ==
    pc = "done"
        => output = convert_to_as_wikitext(mapping, text,
                                           skip_html_code_blocks,
                                           apply_global_rules)

---------------------------------------------------------------------------
(* The claim about the interior of a terminated top-level block.           *)

CloseTagOffsets(t) == {i \in 0..(Len(t) - 2) : StartsAt(t, i, CloseTag)}

\* t is some text, one block with no marker inside, some text
OneBlock(t) ==
    /\ Cardinality(OpenTagOffsets(t)) = 1
    /\ Cardinality(CloseTagOffsets(t)) = 1
    /\ \A o \in OpenTagOffsets(t) : \A c \in CloseTagOffsets(t) : o + 2 <= c

TopOpen(t) == CHOOSE o \in OpenTagOffsets(t) : TRUE
TopClose(t) == CHOOSE c \in CloseTagOffsets(t) : TRUE

\* C21: the interior of a terminated top-level block is never passed
\* through the dictionary: nothing is written while the block is open, the
\* end tag that closes it writes the rendering of the resolver straight to
\* the output, and the text before the block is dictionary-converted; a page
\* of one block comes out as converted text, rendering, converted text.
C21_BlockInteriorNotConverted ==
    /\ [][/\ (pc = "inner" /\ pc' = "inner") => output' = output
          /\ (pc = "inner" /\ pc' = "unwind" /\ pieces' = <<>>)
                 => output' = output
                        \o targeted(pieces[1] \o Slice(text, pos, pos' - 2))
          /\ (pc = "outer" /\ pc' = "inner")
                 => output' = output
                        \o boxed_convert_to(mapping, shadowing_pairs,
                                            shadowed_source_words,
                                            Slice(text, pos, pos' - 2))]_vars
    /\ [](/\ pc = "done"
          /\ OneBlock(text)
          /\ (~skip_html_code_blocks \/ FindFrom(text, 0, <<"<">>) = -1)
          => output =
                 boxed_convert_to(mapping, shadowing_pairs,
                                  shadowed_source_words,
                                  Slice(text, 0, TopOpen(text)))
                   \o targeted(Slice(text, TopOpen(text) + 2, TopClose(text)))
                   \o convert_to(mapping,
                                 Slice(text, TopClose(text) + 2, Len(text))))

\* a -{a}- a has come out as X a X on the converter of a -> X
C21_Witness ==
    /\ pc = "done"
    /\ text = WordA \o OpenTag \o WordA \o CloseTag \o WordA
    /\ mapping[WordA] = WordX
    /\ output = WordX \o WordA \o WordX

---------------------------------------------------------------------------
(* The claim about threads sharing a converter, checked under SpecShared.  *)

\* what the call c returns when it runs alone on the converter
AloneOutput(c) ==
    CASE c.op = "convert" -> convert_to(mapping, c.text)
      [] c.op = "wikitext" ->
             convert_to_as_wikitext(mapping, c.text, c.skip_html_code_blocks,
                                    c.apply_global_rules)
      [] OTHER -> <<>>

AloneMatched(c) ==
    IF c.op = "count_matched" THEN count_matched(mapping, c.text) ELSE 0

\* C14: no step of a call changes the converter; whatever the interleaving,
\* a call returns what it returns alone; a step of one thread leaves the
\* locals of the others, their overlays included, as they are; and a call
\* starts without an overlay.
C14_SharedConverterIsReadOnly ==
    [][/\ mapping' = mapping
       /\ \A t \in Threads :
              /\ calls'[t].pc = "returned"
                     => /\ calls'[t].output = AloneOutput(calls'[t])
                        /\ calls'[t].matched = AloneMatched(calls'[t])
              /\ (calls[t].pc = "idle" /\ calls'[t].pc = "called")
                     => /\ calls'[t].shadowing_pairs = EmptyMap
                        /\ calls'[t].shadowed_source_words = {}
              /\ calls'[t] # calls[t]
                     => \A u \in Threads \ {t} : calls'[u] = calls[u]]_vars

\* thread 1 has returned Z for a-{H|a:Z}- with global rules while thread 2
\* scans with the overlay a -> Y of its own text
C14_Witness ==
    /\ calls[1].pc = "returned"
    /\ calls[1].op = "wikitext"
    /\ calls[1].apply_global_rules
    /\ calls[1].text = WordA \o GlobalAdd
    /\ calls[1].output = WordZ
    /\ calls[2].pc = "scan"
    /\ calls[2].shadowing_pairs = (WordA :> WordY)

===========================================================================
